---- MODULE Spec2Model ----
(***************************************************************************)
(* pdbtk: the record model (Entry -> Chain -> Model -> Residue -> Atom),   *)
(* the alternate-location side table read next to it, and the transform    *)
(* engine of the extract command (ExtractChainsPDB, filterByAltLoc) with   *)
(* renameChainPDB, renumberResiduesPDB and the writer writePDBToWriter, as *)
(* a state machine over one input file.                                    *)
(*                                                                         *)
(* A file is a sequence of lines.  A line keeps the columns the program    *)
(* reads: the record tag, whether it reaches column 17, the model the      *)
(* preceding MODEL record puts it in, and the fixed columns of a           *)
(* coordinate record.  The coordinates of an atom are abstracted to the    *)
(* number of the line that carries them, so that every atom read from the  *)
(* file is told apart from every other one.                                *)
(***************************************************************************)
EXTENDS Integers, Sequences, FiniteSets, TLC

VARIABLES
    file,          \* the input file
    phase,         \* "input", "ready" (a pair is held), "failed", "crashed"
    entry,         \* the Entry held
    altLocList,    \* the side table held next to it
    inEntry,       \* the Entry the last operation was called with, after the call
    inAltLocList,  \* the side table it was called with, after the call
    op,            \* the last operation
    arg,           \* its argument
    err,           \* what it returned as error, "panic" when it did not return
    warn,          \* the warnings it wrote to stderr
    history,       \* the operations applied since decoding
    output,        \* the lines written to the writer
    tmpfiles       \* the temporary files that exist

vars == <<file, phase, entry, altLocList, inEntry, inAltLocList, op, arg, err,
          warn, history, output, tmpfiles>>

(***************************************************************************)
(* Bounds and the small sets the inputs are drawn from.                    *)
(***************************************************************************)
MaxLines == 3

ChainIds == {"A", "B"}
ModelNums == {1, 2}
Blank == " "

\* The selector strings of --altloc, as sequences of characters.
First == <<"f", "i", "r", "s", "t">>
EmptySelector == <<>>
Selectors == {<<"A">>, <<"B">>, First, EmptySelector}

EmptyEntry == [Chains |-> <<>>]

(***************************************************************************)
(* Generic helpers on sequences.                                           *)
(***************************************************************************)
RECURSIVE Concat(_)
Concat(ss) == IF ss = <<>> THEN <<>> ELSE Head(ss) \o Concat(Tail(ss))

RECURSIVE SumSeq(_)
SumSeq(ns) == IF ns = <<>> THEN 0 ELSE Head(ns) + SumSeq(Tail(ns))

Map(s, F(_)) == [i \in 1..Len(s) |-> F(s[i])]

\* s[from+1 .. to] in TLA+ indices: the Go slice s[from:to].
Slice(s, from, to) == [i \in 1..(to - from) |-> s[from + i]]

Perms(S) == {p \in [1..Cardinality(S) -> S] : \A i, j \in DOMAIN p : i # j => p[i] # p[j]}

(***************************************************************************)
(* Residue names.  A Residue of an Entry holds the one-letter code of its  *)
(* name; the text has the three-letter code.  reverseMap is the table of   *)
(* singleLetterToResidue.                                                  *)
(***************************************************************************)
UNK == <<"U", "N", "K">>

reverseMap ==
    [A |-> <<"A", "L", "A">>, R |-> <<"A", "R", "G">>, N |-> <<"A", "S", "N">>,
     D |-> <<"A", "S", "P">>, C |-> <<"C", "Y", "S">>, Q |-> <<"G", "L", "N">>,
     E |-> <<"G", "L", "U">>, G |-> <<"G", "L", "Y">>, H |-> <<"H", "I", "S">>,
     I |-> <<"I", "L", "E">>, L |-> <<"L", "E", "U">>, K |-> <<"L", "Y", "S">>,
     M |-> <<"M", "E", "T">>, F |-> <<"P", "H", "E">>, P |-> <<"P", "R", "O">>,
     S |-> <<"S", "E", "R">>, T |-> <<"T", "H", "R">>, W |-> <<"T", "R", "P">>,
     Y |-> <<"T", "Y", "R">>, V |-> <<"V", "A", "L">>, U |-> <<"S", "E", "C">>,
     O |-> <<"P", "Y", "L">>, X |-> UNK, J |-> <<"X", "L", "E">>]

\* The decoder's one-letter code of a three-letter name: the letter the table
\* has for it, X for a name the table does not have.
ResidueLetter(resName) ==
    LET letters == {l \in DOMAIN reverseMap : reverseMap[l] = resName}
    IN IF letters # {} THEN CHOOSE l \in letters : TRUE ELSE "X"

(***************************************************************************)
(* Lines of a file.                                                        *)
(***************************************************************************)
CoordLine(rec, model, chain, resSeq, name, altLoc) ==
    [rec |-> rec, long |-> TRUE, model |-> model, chain |-> chain,
     resName |-> <<"A", "L", "A">>, resSeq |-> resSeq, iCode |-> Blank,
     name |-> name, altLoc |-> altLoc]

\* A coordinate record cut before column 17.
ShortLine == [CoordLine("ATOM", 1, "A", 1, "CA", Blank) EXCEPT !.long = FALSE]

\* A record that is no coordinate record (HEADER, REMARK, END, ...).
OtherLine == [CoordLine("HEADER", 1, "A", 1, "CA", Blank) EXCEPT !.long = TRUE]

IsCoord(ln) == ln.rec = "ATOM" \/ ln.rec = "HETATM"

(***************************************************************************)
(* Traversal of an Entry: chain -> model -> residue -> atom.               *)
(***************************************************************************)
ResidueAtomCount(residue) == Len(residue.Atoms)
ModelAtomCount(model) == SumSeq(Map(model.Residues, ResidueAtomCount))
ChainAtomCount(chain) == SumSeq(Map(chain.Models, ModelAtomCount))
EntryAtomCount(e) == SumSeq(Map(e.Chains, ChainAtomCount))

ResidueAtoms(residue) == residue.Atoms
ModelAtoms(model) == Concat(Map(model.Residues, ResidueAtoms))
ChainAtoms(chain) == Concat(Map(chain.Models, ModelAtoms))
FlatAtoms(e) == Concat(Map(e.Chains, ChainAtoms))

(***************************************************************************)
(* The decoder.  pdb.ReadPDB builds the Entry: a coordinate record goes to *)
(* the chain with its identifier (made at its first record), to the model  *)
(* with its model number inside that chain, and to the last residue of     *)
(* that model when sequence number and insertion code agree, else to a new *)
(* residue.  A coordinate record shorter than its columns is a decode      *)
(* error.                                                                  *)
(***************************************************************************)
NewAtom(ln, i) == [Name |-> ln.name, Het |-> (ln.rec = "HETATM"), Coords |-> i]

NewResidue(ln, i) ==
    [Name |-> ResidueLetter(ln.resName), SequenceNum |-> ln.resSeq,
     InsertionCode |-> ln.iCode,
     Atoms |-> <<NewAtom(ln, i)>>]

AddToModel(model, ln, i) ==
    LET n == Len(model.Residues) IN
    IF n > 0 /\ model.Residues[n].SequenceNum = ln.resSeq
             /\ model.Residues[n].InsertionCode = ln.iCode
    THEN [model EXCEPT !.Residues[n].Atoms = Append(@, NewAtom(ln, i))]
    ELSE [model EXCEPT !.Residues = Append(@, NewResidue(ln, i))]

AddToChain(chain, ln, i) ==
    LET found == {m \in 1..Len(chain.Models) : chain.Models[m].Num = ln.model} IN
    IF found # {}
    THEN LET m == CHOOSE x \in found : TRUE
         IN [chain EXCEPT !.Models[m] = AddToModel(@, ln, i)]
    ELSE [chain EXCEPT !.Models =
              Append(@, AddToModel([Num |-> ln.model, Residues |-> <<>>], ln, i))]

AddToEntry(e, ln, i) ==
    LET found == {c \in 1..Len(e.Chains) : e.Chains[c].Ident = ln.chain} IN
    IF found # {}
    THEN LET c == CHOOSE x \in found : TRUE
         IN [e EXCEPT !.Chains[c] = AddToChain(@, ln, i)]
    ELSE [e EXCEPT !.Chains =
              Append(@, AddToChain([Ident |-> ln.chain, Models |-> <<>>], ln, i))]

RECURSIVE ReadLines(_, _, _)
ReadLines(f, i, e) ==
    IF i > Len(f) THEN e
    ELSE ReadLines(f, i + 1, IF IsCoord(f[i]) THEN AddToEntry(e, f[i], i) ELSE e)

ReadPDB(f) ==
    IF \E i \in 1..Len(f) : IsCoord(f[i]) /\ ~f[i].long
    THEN [err |-> "DecodeError", entry |-> EmptyEntry]
    ELSE [err |-> "nil", entry |-> ReadLines(f, 1, EmptyEntry)]

(***************************************************************************)
(* ReadPDBWithAltLoc: the Entry of pdb.ReadPDB, and next to it column 17   *)
(* of every ATOM/HETATM line of at least 17 characters, in file order.     *)
(* ReadPDBWithAltLocFromContent does the same with the lines of the        *)
(* content it is given.                                                    *)
(***************************************************************************)
\* Variant: only ATOM records are scanned.
AltLocOfAtomLine(ln) == IF ln.rec = "ATOM" /\ ln.long THEN <<ln.altLoc>> ELSE <<>>

AltLocOfLine(ln) == IF IsCoord(ln) /\ ln.long THEN <<ln.altLoc>> ELSE <<>>

ScanAltLoc(f) == Concat(Map(f, AltLocOfLine))

ReadPDBWithAltLoc(f) ==
    LET r == ReadPDB(f) IN
    IF r.err # "nil"
    THEN [err |-> r.err, entry |-> EmptyEntry, altLocList |-> <<>>]
    ELSE [err |-> "nil", entry |-> r.entry, altLocList |-> ScanAltLoc(f)]

(***************************************************************************)
(* readPDBFromContent and ReadPDBWithAltLocFromContent: the content is     *)
(* written to a temporary file that pdb.ReadPDB reads.  fs is the set of   *)
(* temporary files that exist at the call; io is what the file system does *)
(* to the call: os.CreateTemp fails, the write fails, or both succeed.     *)
(* The result carries the temporary files that exist at the return and the *)
(* name of the file the call created.                                      *)
(***************************************************************************)
IoOutcomes == {"ok", "create fails", "write fails"}
NoFile == "none"

\* os.CreateTemp("", "pdbtk_*.pdb"): a name no file has.
TempName(fs) == <<"pdbtk", Cardinality(fs) + 1>>

\* Variant: the file is removed after a decode that succeeds only.
RemoveDeferredOnSuccess(fs, name, failed) == IF failed THEN fs ELSE fs \ {name}

\* defer os.Remove(tmpfile.Name()): runs at every return after it.
RemoveDeferred(fs, name, failed) == fs \ {name}

readPDBFromContent(content, fs, io) ==
    LET name == TempName(fs)
        created == fs \cup {name}
    IN IF io = "create fails"
       THEN [err |-> "create temp failed", entry |-> EmptyEntry,
             tmpfiles |-> fs, created |-> NoFile]
       ELSE IF io = "write fails"
       THEN [err |-> "write failed", entry |-> EmptyEntry,
             tmpfiles |-> RemoveDeferred(created, name, TRUE), created |-> name]
       ELSE LET r == ReadPDB(content)
            IN [err |-> r.err, entry |-> r.entry,
                tmpfiles |-> RemoveDeferred(created, name, r.err # "nil"),
                created |-> name]

ReadPDBWithAltLocFromContent(content, fs, io) ==
    LET name == TempName(fs)
        created == fs \cup {name}
    IN IF io = "create fails"
       THEN [err |-> "create temp failed", entry |-> EmptyEntry, altLocList |-> <<>>,
             tmpfiles |-> fs, created |-> NoFile]
       ELSE IF io = "write fails"
       THEN [err |-> "write failed", entry |-> EmptyEntry, altLocList |-> <<>>,
             tmpfiles |-> RemoveDeferred(created, name, TRUE), created |-> name]
       ELSE LET r == ReadPDB(content)
            IN IF r.err # "nil"
               THEN [err |-> r.err, entry |-> EmptyEntry, altLocList |-> <<>>,
                     tmpfiles |-> RemoveDeferred(created, name, TRUE),
                     created |-> name]
               ELSE [err |-> "nil", entry |-> r.entry,
                     altLocList |-> ScanAltLoc(content),
                     tmpfiles |-> RemoveDeferred(created, name, FALSE),
                     created |-> name]

(***************************************************************************)
(* ExtractChainsPDB.                                                       *)
(***************************************************************************)
\* Variant: only the first identifier of chainList is taken.
ValidChainsFirstOnly(chainList) ==
    IF Len(chainList) > 0 /\ Len(chainList[1]) = 1 THEN {chainList[1][1]} ELSE {}

\* validChains: the first character of every identifier of chainList that is
\* exactly one character long.
ValidChains(chainList) ==
    {chainList[i][1] : i \in {j \in 1..Len(chainList) : Len(chainList[j]) = 1}}

\* Variant: atomIndex advances only over the chains that are kept.
RECURSIVE ExtractLoopIndexKept(_, _, _, _, _, _)
ExtractLoopIndexKept(chains, c, valid, altLoc, atomIndex, acc) ==
    IF c > Len(chains) THEN acc
    ELSE LET chain == chains[c]
             atomCount == ChainAtomCount(chain)
             copy == IF atomIndex + atomCount <= Len(altLoc)
                     THEN Slice(altLoc, atomIndex, atomIndex + atomCount)
                     ELSE <<>>
         IN IF chain.Ident \in valid
            THEN ExtractLoopIndexKept(chains, c + 1, valid, altLoc,
                     atomIndex + atomCount,
                     [Chains |-> Append(acc.Chains, chain),
                      altLocList |-> acc.altLocList \o copy])
            ELSE ExtractLoopIndexKept(chains, c + 1, valid, altLoc, atomIndex, acc)

RECURSIVE ExtractLoop(_, _, _, _, _, _)
ExtractLoop(chains, c, valid, altLoc, atomIndex, acc) ==
    IF c > Len(chains) THEN acc
    ELSE LET chain == chains[c]
             atomCount == ChainAtomCount(chain)
             copy == IF atomIndex + atomCount <= Len(altLoc)
                     THEN Slice(altLoc, atomIndex, atomIndex + atomCount)
                     ELSE <<>>
         IN ExtractLoop(chains, c + 1, valid, altLoc, atomIndex + atomCount,
                IF chain.Ident \in valid
                THEN [Chains |-> Append(acc.Chains, chain),
                      altLocList |-> acc.altLocList \o copy]
                ELSE acc)

\* Variant: an Entry left without chains is refused.
ExtractChainsPDBRefusesEmpty(e, chainList, altLoc) ==
    LET r == ExtractLoop(e.Chains, 1, ValidChains(chainList), altLoc, 0,
                         [Chains |-> <<>>, altLocList |-> <<>>])
    IN IF Len(r.Chains) = 0
       THEN [err |-> "no chains found", entry |-> EmptyEntry, altLocList |-> <<>>]
       ELSE [err |-> "nil", entry |-> [Chains |-> r.Chains],
             altLocList |-> r.altLocList]

\* The Entry and the side table ExtractChainsPDB was given, as they are when
\* it returns: the chains are appended to a new slice and the tags to a new
\* slice, nothing is assigned through entry or altLocList.
InputAfterExtract(e, altLoc, chainList) == [entry |-> e, altLocList |-> altLoc]

ExtractChainsPDB(e, chainList, altLoc) ==
    LET r == ExtractLoop(e.Chains, 1, ValidChains(chainList), altLoc, 0,
                         [Chains |-> <<>>, altLocList |-> <<>>])
    IN [err |-> "nil", entry |-> [Chains |-> r.Chains], altLocList |-> r.altLocList]

(***************************************************************************)
(* filterByAltLoc.  The atoms of a residue are grouped by name in a map;   *)
(* the groups are then visited in the order the map yields them, which Go  *)
(* leaves unspecified: order is the sequence of names in which the groups  *)
(* of one residue are visited.                                             *)
(***************************************************************************)
\* The tag the loop reads for the atom at atomIndex (0-based).
AltLocAt(altLoc, atomIndex) ==
    IF atomIndex < Len(altLoc) THEN altLoc[atomIndex + 1] ELSE Blank

\* atomGroups[name]: the atoms of the residue with that name, in residue
\* order, each with its index and tag; base is atomIndex at the residue.
AtomGroup(residue, altLoc, base, name) ==
    LET all == [k \in 1..Len(residue.Atoms) |->
                   [atom |-> residue.Atoms[k], index |-> base + k - 1,
                    altLoc |-> AltLocAt(altLoc, base + k - 1)]]
        named(a) == a.atom.Name = name
    IN SelectSeq(all, named)

\* Variant: the first member is taken whatever the tags are.
SelectedIdxFirstMember(group) == 1

\* selectedIdx (1-based): the first member with a non-blank tag, else the first.
SelectedIdx(group) ==
    LET tagged == {i \in 1..Len(group) : group[i].altLoc # Blank} IN
    IF tagged = {} THEN 1 ELSE CHOOSE i \in tagged : \A j \in tagged : i <= j

\* Variant: a blank tag does not pass a specific selector.
FilterGroupTagOnly(group, altlocFilter) ==
    IF altlocFilter = First
    THEN IF Len(group) > 1 THEN <<group[SelectedIdx(group)]>> ELSE <<group[1]>>
    ELSE LET targetAltLoc == altlocFilter[1]
             keep(a) == a.altLoc = targetAltLoc
         IN SelectSeq(group, keep)

\* Variant: a group of one member passes a specific selector untested.
FilterGroupSinglePasses(group, altlocFilter) ==
    IF altlocFilter = First
    THEN IF Len(group) > 1 THEN <<group[SelectedIdx(group)]>> ELSE <<group[1]>>
    ELSE LET targetAltLoc == altlocFilter[1]
             keep(a) == a.altLoc = targetAltLoc \/ a.altLoc = Blank
         IN IF Len(group) = 1 THEN group ELSE SelectSeq(group, keep)

\* Variant: the tag appended for a member kept is the selector's.
FilterGroupTagsTarget(group, altlocFilter) ==
    IF altlocFilter = First
    THEN IF Len(group) > 1 THEN <<group[SelectedIdx(group)]>> ELSE <<group[1]>>
    ELSE LET targetAltLoc == altlocFilter[1]
             keep(a) == a.altLoc = targetAltLoc \/ a.altLoc = Blank
             retag(a) == [a EXCEPT !.altLoc = targetAltLoc]
         IN Map(SelectSeq(group, keep), retag)

FilterGroup(group, altlocFilter) ==
    IF altlocFilter = First
    THEN IF Len(group) > 1 THEN <<group[SelectedIdx(group)]>> ELSE <<group[1]>>
    ELSE LET targetAltLoc == altlocFilter[1]
             keep(a) == a.altLoc = targetAltLoc \/ a.altLoc = Blank
         IN SelectSeq(group, keep)

\* The members kept of one residue, in the order they are appended.
FilterResidue(residue, altLoc, base, altlocFilter, order) ==
    LET kept(name) == FilterGroup(AtomGroup(residue, altLoc, base, name), altlocFilter)
    IN Concat(Map(order, kept))

AtomOf(a) == a.atom
TagOf(a) == a.altLoc

\* The keys of atomGroups for a residue, and the orders a range over the
\* map can take for every residue of the Entry, in traversal order.
GroupNames(residue) == {residue.Atoms[k].Name : k \in 1..Len(residue.Atoms)}

RECURSIVE OrdersFrom(_, _)
OrdersFrom(residues, k) ==
    IF k > Len(residues) THEN {<<>>}
    ELSE {<<p>> \o rest : p \in Perms(GroupNames(residues[k])),
                          rest \in OrdersFrom(residues, k + 1)}

EntryResidues(e) == Concat(Map(e.Chains, LAMBDA chain :
                        Concat(Map(chain.Models, LAMBDA model : model.Residues))))

MapOrders(e) == OrdersFrom(EntryResidues(e), 1)

\* "Only add residue if it has atoms", "only add model if it has residues",
\* "only add chain if it has models".
\* Variant: a chain is added whatever it holds.
ChainAddedAlways(newChain) == TRUE

ResidueAdded(newResidue) == Len(newResidue.Atoms) > 0
ModelAdded(newModel) == Len(newModel.Residues) > 0
ChainAdded(newChain) == Len(newChain.Models) > 0

\* The loops of filterByAltLoc.  st carries what the loops share: the side
\* table built so far, atomIndex, and the number of residues visited (which
\* picks the order of the next residue's groups); out is the slice the loop
\* appends to.
RECURSIVE FilterResidues(_, _, _, _, _, _, _)
FilterResidues(residues, r, altLoc, altlocFilter, orders, out, st) ==
    IF r > Len(residues) THEN [out |-> out, st |-> st]
    ELSE LET residue == residues[r]
             kept == FilterResidue(residue, altLoc, st.atomIndex, altlocFilter,
                                   orders[st.visited + 1])
             newResidue == [Name |-> residue.Name,
                            SequenceNum |-> residue.SequenceNum,
                            InsertionCode |-> residue.InsertionCode,
                            Atoms |-> Map(kept, AtomOf)]
         IN FilterResidues(residues, r + 1, altLoc, altlocFilter, orders,
                IF ResidueAdded(newResidue) THEN Append(out, newResidue) ELSE out,
                [altLocList |-> st.altLocList \o Map(kept, TagOf),
                 atomIndex |-> st.atomIndex + Len(residue.Atoms),
                 visited |-> st.visited + 1])

RECURSIVE FilterModels(_, _, _, _, _, _, _)
FilterModels(models, m, altLoc, altlocFilter, orders, out, st) ==
    IF m > Len(models) THEN [out |-> out, st |-> st]
    ELSE LET done == FilterResidues(models[m].Residues, 1, altLoc, altlocFilter,
                                    orders, <<>>, st)
             newModel == [Num |-> models[m].Num, Residues |-> done.out]
         IN FilterModels(models, m + 1, altLoc, altlocFilter, orders,
                IF ModelAdded(newModel) THEN Append(out, newModel) ELSE out,
                done.st)

RECURSIVE FilterChains(_, _, _, _, _, _, _)
FilterChains(chains, c, altLoc, altlocFilter, orders, out, st) ==
    IF c > Len(chains) THEN [out |-> out, st |-> st]
    ELSE LET done == FilterModels(chains[c].Models, 1, altLoc, altlocFilter,
                                  orders, <<>>, st)
             newChain == [Ident |-> chains[c].Ident, Models |-> done.out]
         IN FilterChains(chains, c + 1, altLoc, altlocFilter, orders,
                IF ChainAdded(newChain) THEN Append(out, newChain) ELSE out,
                done.st)

\* altlocFilter[0] of an empty selector is an index out of range: the call
\* panics at the first group it visits.
FilterPanics(e, altlocFilter) ==
    /\ altlocFilter # First
    /\ Len(altlocFilter) = 0
    /\ EntryAtomCount(e) > 0

\* The Entry and the side table filterByAltLoc was given, as they are when
\* it returns or panics: chains, models and residues are built anew, atoms
\* are copied by value, the side table is read only.
InputAfterFilter(e, altLoc, altlocFilter) == [entry |-> e, altLocList |-> altLoc]

filterByAltLoc(e, altLoc, altlocFilter, orders) ==
    IF FilterPanics(e, altlocFilter)
    THEN [err |-> "panic", entry |-> EmptyEntry, altLocList |-> <<>>]
    ELSE LET done == FilterChains(e.Chains, 1, altLoc, altlocFilter, orders, <<>>,
                         [altLocList |-> <<>>, atomIndex |-> 0, visited |-> 0])
         IN [err |-> "nil", entry |-> [Chains |-> done.out],
             altLocList |-> done.st.altLocList]

(***************************************************************************)
(* renameChainPDB.  The copy of a residue takes its name and its sequence  *)
(* number; the insertion code and the atoms of the copy are zero values.   *)
(***************************************************************************)
Nul == "NUL"

RenamedResidue(residue) ==
    [Name |-> residue.Name, SequenceNum |-> residue.SequenceNum,
     InsertionCode |-> Nul, Atoms |-> <<>>]

RenamedModel(model) ==
    [Num |-> model.Num, Residues |-> Map(model.Residues, RenamedResidue)]

\* Variant: the warning is written before the old identifier is looked for.
renameChainPDBWarnsFirst(e, oldChainID, newChainID) ==
    LET oldChainExists == \E c \in 1..Len(e.Chains) : e.Chains[c].Ident = oldChainID
        newChainExists == \E c \in 1..Len(e.Chains) : e.Chains[c].Ident = newChainID
        newChain(chain) ==
            [Ident |-> IF chain.Ident = oldChainID THEN newChainID ELSE chain.Ident,
             Models |-> Map(chain.Models, RenamedModel)]
    IN IF ~oldChainExists
       THEN [err |-> "chain does not exist", warn |-> IF newChainExists THEN 1 ELSE 0,
             entry |-> EmptyEntry]
       ELSE [err |-> "nil", warn |-> IF newChainExists THEN 1 ELSE 0,
             entry |-> [Chains |-> Map(e.Chains, newChain)]]

\* Variant: no warning is written.
renameChainPDBSilent(e, oldChainID, newChainID) ==
    LET oldChainExists == \E c \in 1..Len(e.Chains) : e.Chains[c].Ident = oldChainID
        newChain(chain) ==
            [Ident |-> IF chain.Ident = oldChainID THEN newChainID ELSE chain.Ident,
             Models |-> Map(chain.Models, RenamedModel)]
    IN IF ~oldChainExists
       THEN [err |-> "chain does not exist", warn |-> 0, entry |-> EmptyEntry]
       ELSE [err |-> "nil", warn |-> 0,
             entry |-> [Chains |-> Map(e.Chains, newChain)]]

\* Variant: the identifier is set on the chain of the input.
InputAfterRenameInPlace(e, altLoc, oldChainID, newChainID) ==
    LET relabel(chain) ==
            [chain EXCEPT !.Ident = IF @ = oldChainID THEN newChainID ELSE @]
    IN [entry |-> [Chains |-> Map(e.Chains, relabel)], altLocList |-> altLoc]

\* The Entry renameChainPDB was given, as it is when it returns: newChain.Ident
\* is the field of the copy.
InputAfterRename(e, altLoc, oldChainID, newChainID) ==
    [entry |-> e, altLocList |-> altLoc]

renameChainPDB(e, oldChainID, newChainID) ==
    LET oldChainExists == \E c \in 1..Len(e.Chains) : e.Chains[c].Ident = oldChainID
        newChainExists == \E c \in 1..Len(e.Chains) : e.Chains[c].Ident = newChainID
        newChain(chain) ==
            [Ident |-> IF chain.Ident = oldChainID THEN newChainID ELSE chain.Ident,
             Models |-> Map(chain.Models, RenamedModel)]
    IN IF ~oldChainExists
       THEN [err |-> "chain does not exist", warn |-> 0, entry |-> EmptyEntry]
       ELSE [err |-> "nil", warn |-> IF newChainExists THEN 1 ELSE 0,
             entry |-> [Chains |-> Map(e.Chains, newChain)]]

(***************************************************************************)
(* renumberResiduesPDB.  A chain that is not the target is copied by       *)
(* copyChain, a target chain is rebuilt by renumberChainResidues; both     *)
(* build a residue from its name and a sequence number, so the insertion   *)
(* code and the atoms of the residues they return are zero values.         *)
(* chainID is the string of --chain as a sequence of characters, <<>>      *)
(* being the empty string.  Residue numbers and start values stay far from *)
(* the ends of Go's int, so sums and differences are those of integers.    *)
(***************************************************************************)
CopiedResidue(residue) ==
    [Name |-> residue.Name, SequenceNum |-> residue.SequenceNum,
     InsertionCode |-> Nul, Atoms |-> <<>>]

CopiedModel(model) ==
    [Num |-> model.Num, Residues |-> Map(model.Residues, CopiedResidue)]

copyChain(chain) ==
    [Ident |-> chain.Ident, Models |-> Map(chain.Models, CopiedModel)]

NumberedResidue(residue, num) ==
    [Name |-> residue.Name, SequenceNum |-> num, InsertionCode |-> Nul,
     Atoms |-> <<>>]

\* Variant: the residue that would get 0 gets 1 and the count goes on from
\* where it was.
RECURSIVE SequentialLoopSubstituteOnly(_, _, _, _, _)
SequentialLoopSubstituteOnly(residues, j, currentNum, excludeZero, acc) ==
    IF j > Len(residues) THEN acc
    ELSE LET num == IF excludeZero /\ currentNum = 0 THEN 1 ELSE currentNum
         IN SequentialLoopSubstituteOnly(residues, j + 1, currentNum + 1,
                excludeZero, Append(acc, NumberedResidue(residues[j], num)))

\* The loop of the forceSequential branch: currentNum is set to 1 when it is
\* 0 and excludeZero is set, given to the residue, and incremented.
RECURSIVE SequentialLoop(_, _, _, _, _)
SequentialLoop(residues, j, currentNum, excludeZero, acc) ==
    IF j > Len(residues) THEN acc
    ELSE LET num == IF excludeZero /\ currentNum = 0 THEN 1 ELSE currentNum
         IN SequentialLoop(residues, j + 1, num + 1, excludeZero,
                Append(acc, NumberedResidue(residues[j], num)))

\* Variant: the number of the first residue is taken as the minimum.
MinResNumFirst(residues, j, minResNum) == residues[1].SequenceNum

\* minResNum after the loop that looks for the minimum residue number.
RECURSIVE MinResNum(_, _, _)
MinResNum(residues, j, minResNum) ==
    IF j > Len(residues) THEN minResNum
    ELSE MinResNum(residues, j + 1,
             IF residues[j].SequenceNum < minResNum
             THEN residues[j].SequenceNum ELSE minResNum)

\* Variant: excludeZero is not looked at.
OffsetResidueKeepsZero(residue, offset, excludeZero) ==
    NumberedResidue(residue, residue.SequenceNum + offset)

\* Variant: with excludeZero, zero and every number above it move up by one.
OffsetResidueSkipsZero(residue, offset, excludeZero) ==
    LET newResNum == residue.SequenceNum + offset
    IN NumberedResidue(residue,
           IF excludeZero /\ newResNum >= 0 THEN newResNum + 1 ELSE newResNum)

\* One pass of the loop that applies the offset.
OffsetResidue(residue, offset, excludeZero) ==
    LET newResNum == residue.SequenceNum + offset
    IN NumberedResidue(residue,
           IF excludeZero /\ newResNum = 0 THEN 1 ELSE newResNum)

RenumberedModel(model, startNum, forceSequential, excludeZero) ==
    [Num |-> model.Num,
     Residues |->
        IF forceSequential
        THEN SequentialLoop(model.Residues, 1, startNum, excludeZero, <<>>)
        ELSE IF Len(model.Residues) = 0 THEN <<>>
        ELSE LET minResNum == MinResNum(model.Residues, 1,
                                        model.Residues[1].SequenceNum)
                 offset == startNum - minResNum
             IN [j \in 1..Len(model.Residues) |->
                    OffsetResidue(model.Residues[j], offset, excludeZero)]]

renumberChainResidues(chain, startNum, forceSequential, excludeZero) ==
    [Ident |-> chain.Ident,
     Models |-> [i \in 1..Len(chain.Models) |->
                    RenumberedModel(chain.Models[i], startNum, forceSequential,
                                    excludeZero)]]

\* The Entry renumberResiduesPDB was given, as it is when it returns: the
\* numbers are fields of the residues of the copy.
InputAfterRenumber(e, altLoc, a) == [entry |-> e, altLocList |-> altLoc]

\* targetChain is chainID[0] when chainID is not empty, whatever its length.
renumberResiduesPDB(e, startNum, chainID, forceSequential, excludeZero) ==
    LET newChain(chain) ==
            IF chainID # <<>> /\ chain.Ident # chainID[1]
            THEN copyChain(chain)
            ELSE renumberChainResidues(chain, startNum, forceSequential, excludeZero)
    IN [err |-> "nil", entry |-> [Chains |-> Map(e.Chains, newChain)]]

\* runRenumberResidues up to its call of the writer: the chain identifier is
\* validated, the file is decoded, the Entry is renumbered; the Entry it
\* ends with is the one it hands to the writer.
runRenumberResidues(f, startNum, chainID, forceSequential, excludeZero) ==
    IF chainID # <<>> /\ Len(chainID) # 1
    THEN [err |-> "chain ID must be a single character", entry |-> EmptyEntry,
          read |-> EmptyEntry]
    ELSE LET d == ReadPDB(f) IN
         IF d.err # "nil"
         THEN [err |-> "failed to read PDB file", entry |-> EmptyEntry,
               read |-> EmptyEntry]
         ELSE LET r == renumberResiduesPDB(d.entry, startNum, chainID,
                                           forceSequential, excludeZero)
              IN [err |-> r.err, entry |-> r.entry, read |-> d.entry]

(***************************************************************************)
(* The encoder.  Text is a sequence of characters, a character a string of *)
(* length one; an atom name that is formatted is such a sequence.          *)
(***************************************************************************)
NameWidth == 4

UpperChars == {"A", "C", "E", "H", "L", "N", "K", "U", "V", "X", "M", "T", "O"}
LowerChars == {"e"}
DigitChars == {"0", "1", "2", "3", "4", "5", "6", "7", "8", "9"}

IsLower(ch) == ch \in LowerChars
IsLetter(ch) == ch \in UpperChars \cup LowerChars

\* strings.ToUpper, character by character.
ToUpperChar(ch) == IF ch = "e" THEN "E" ELSE ch
ToUpper(str) == [i \in 1..Len(str) |-> ToUpperChar(str[i])]

\* strings.TrimSpace.
RECURSIVE TrimLeft(_)
TrimLeft(str) ==
    IF Len(str) > 0 /\ str[1] = Blank THEN TrimLeft(Tail(str)) ELSE str

RECURSIVE TrimRight(_)
TrimRight(str) ==
    IF Len(str) > 0 /\ str[Len(str)] = Blank
    THEN TrimRight(SubSeq(str, 1, Len(str) - 1)) ELSE str

TrimSpace(str) == TrimRight(TrimLeft(str))

\* strings.TrimPrefix.
TrimPrefix(str, prefix) ==
    IF Len(prefix) <= Len(str) /\ SubSeq(str, 1, Len(prefix)) = prefix
    THEN SubSeq(str, Len(prefix) + 1, Len(str))
    ELSE str

\* %-Ns: the string, with blanks after it up to the width.
PadRight(str, width) ==
    str \o [i \in 1..(IF Len(str) < width THEN width - Len(str) ELSE 0) |-> Blank]

\* %Ns and %Nd: the string, with blanks before it up to the width.
PadLeft(str, width) ==
    [i \in 1..(IF Len(str) < width THEN width - Len(str) ELSE 0) |-> Blank] \o str

\* extractElementSymbol: the first letter of the trimmed name, with the
\* character after it when that is a lower-case letter, in upper case; the
\* first character when the name has no letter.
extractElementSymbol(atomName) ==
    LET name == TrimSpace(atomName)
        letters == {i \in 1..Len(name) : IsLetter(name[i])}
    IN IF Len(name) = 0 THEN <<>>
       ELSE IF letters # {}
       THEN LET i == CHOOSE x \in letters : \A y \in letters : x <= y
            IN IF i + 1 <= Len(name) /\ IsLower(name[i + 1])
               THEN ToUpper(SubSeq(name, i, i + 1))
               ELSE ToUpper(<<name[i]>>)
       ELSE ToUpper(<<name[1]>>)

formatAtomName(atomName) ==
    LET name == TrimSpace(atomName)
        element == extractElementSymbol(name)
        trailing == TrimPrefix(name, element)
    IN IF Len(name) >= NameWidth THEN PadRight(name, NameWidth)
       ELSE IF Len(element) = 1
       THEN <<Blank>> \o PadRight(element, 1) \o PadRight(trailing, 2)
       ELSE IF Len(element) = 2
       THEN PadRight(element, 2) \o PadRight(trailing, 2)
       ELSE PadRight(name, NameWidth)

\* singleLetterToResidue.
singleLetterToResidue(singleLetter) ==
    LET letter == ToUpperChar(singleLetter)
    IN IF letter \in DOMAIN reverseMap THEN reverseMap[letter] ELSE UNK

\* %d: the decimal digits of a number, with its sign when it is negative.
Digit(d) == <<"0", "1", "2", "3", "4", "5", "6", "7", "8", "9">>[d + 1]

RECURSIVE Digits(_)
Digits(n) == IF n < 10 THEN <<Digit(n)>> ELSE Digits(n \div 10) \o <<Digit(n % 10)>>

Itoa(n) == IF n < 0 THEN <<"-">> \o Digits(0 - n) ELSE Digits(n)

AtomTag == <<"A", "T", "O", "M">>
HetatmTag == <<"H", "E", "T", "A", "T", "M">>

\* The coordinate line of an atom up to the insertion code, as Fprintf
\* writes it; the coordinates travel with the line.
AtomLine(chain, residue, atom, atomSerial) ==
    LET recordType == IF atom.Het THEN HetatmTag ELSE AtomTag \o <<Blank, Blank>>
        insertionCode == IF residue.InsertionCode = Nul THEN Blank
                         ELSE residue.InsertionCode
    IN [tag |-> "coord",
        text |-> PadRight(recordType, 6) \o PadLeft(Itoa(atomSerial), 5)
                 \o <<Blank>> \o formatAtomName(atom.Name) \o <<Blank>>
                 \o PadLeft(singleLetterToResidue(residue.Name), 3)
                 \o <<Blank>> \o <<chain.Ident>>
                 \o PadLeft(Itoa(residue.SequenceNum), 4) \o <<insertionCode>>,
        coords |-> atom.Coords,
        element |-> PadLeft(extractElementSymbol(atom.Name), 2)]

MarkerLine(tag, num) == [tag |-> tag, num |-> num]

\* Variant: the markers are written when some model is numbered above 1.
HasMultipleModelsByNumber(e) ==
    \E c \in 1..Len(e.Chains) : \E m \in 1..Len(e.Chains[c].Models) :
        e.Chains[c].Models[m].Num > 1

HasMultipleModels(e) == \E c \in 1..Len(e.Chains) : Len(e.Chains[c].Models) > 1

\* The lines of one model of one chain; atomSerial is the serial of its first
\* atom.
ModelLines(chain, model, atomSerial, hasMultipleModels) ==
    LET atoms == Concat([r \in 1..Len(model.Residues) |->
                    [a \in 1..Len(model.Residues[r].Atoms) |->
                        [residue |-> model.Residues[r],
                         atom |-> model.Residues[r].Atoms[a]]]])
    IN (IF hasMultipleModels THEN <<MarkerLine("MODEL", model.Num)>> ELSE <<>>)
       \o [k \in 1..Len(atoms) |->
              AtomLine(chain, atoms[k].residue, atoms[k].atom, atomSerial + k - 1)]
       \o (IF hasMultipleModels THEN <<MarkerLine("ENDMDL", 0)>> ELSE <<>>)

RECURSIVE WriteModels(_, _, _, _, _)
WriteModels(chain, m, atomSerial, hasMultipleModels, out) ==
    IF m > Len(chain.Models) THEN [out |-> out, atomSerial |-> atomSerial]
    ELSE WriteModels(chain, m + 1, atomSerial + ModelAtomCount(chain.Models[m]),
                     hasMultipleModels,
                     out \o ModelLines(chain, chain.Models[m], atomSerial,
                                       hasMultipleModels))

RECURSIVE WriteChains(_, _, _, _, _)
WriteChains(e, c, atomSerial, hasMultipleModels, out) ==
    IF c > Len(e.Chains) THEN out
    ELSE LET w == WriteModels(e.Chains[c], 1, atomSerial, hasMultipleModels, out)
         IN WriteChains(e, c + 1, w.atomSerial, hasMultipleModels, w.out)

writePDBToWriter(e) ==
    <<MarkerLine("HEADER", 0), MarkerLine("REMARK", 0)>>
    \o WriteChains(e, 1, 1, HasMultipleModels(e), <<>>)
    \o <<MarkerLine("END", 0)>>

(***************************************************************************)
(* The decoder on the text of the writer.  The columns of a coordinate     *)
(* line are read by position: record tag 1-6, atom name 13-16, alternate   *)
(* location 17, residue name 18-20, chain 22, residue number 23-26,        *)
(* insertion code 27.  A coordinate line is in the model of the MODEL line *)
(* before it, in model 1 when there is none.                               *)
(***************************************************************************)
IsNumeric(str) ==
    LET digits == IF Len(str) > 0 /\ str[1] = "-" THEN Tail(str) ELSE str
    IN Len(digits) > 0 /\ \A i \in 1..Len(digits) : digits[i] \in DigitChars

DigitValue(ch) == CHOOSE d \in 0..9 : Digit(d) = ch

RECURSIVE DigitsValue(_)
DigitsValue(digits) ==
    IF Len(digits) = 0 THEN 0
    ELSE 10 * DigitsValue(SubSeq(digits, 1, Len(digits) - 1))
         + DigitValue(digits[Len(digits)])

Atoi(str) == IF str[1] = "-" THEN 0 - DigitsValue(Tail(str)) ELSE DigitsValue(str)

Columns(text, from, to) == SubSeq(text, from, to)

IsCoordText(ln) ==
    /\ ln.tag = "coord"
    /\ \/ Columns(ln.text, 1, 4) = AtomTag
       \/ Columns(ln.text, 1, 6) = HetatmTag

TooShort(ln) == IsCoordText(ln) /\ Len(ln.text) < 27

BadNumber(ln) ==
    IsCoordText(ln) /\ ~TooShort(ln) /\ ~IsNumeric(TrimSpace(Columns(ln.text, 23, 26)))

ModelAt(lines, i) ==
    LET before == {j \in 1..(i - 1) : lines[j].tag = "MODEL"}
    IN IF before = {} THEN 1
       ELSE lines[CHOOSE j \in before : \A k \in before : k <= j].num

ParsedLine(lines, i) ==
    LET ln == lines[i] IN
    IF ~IsCoordText(ln) THEN OtherLine
    ELSE [rec |-> IF Columns(ln.text, 1, 6) = HetatmTag THEN "HETATM" ELSE "ATOM",
          long |-> TRUE,
          model |-> ModelAt(lines, i),
          chain |-> ln.text[22],
          resName |-> Columns(ln.text, 18, 20),
          resSeq |-> Atoi(TrimSpace(Columns(ln.text, 23, 26))),
          iCode |-> ln.text[27],
          name |-> TrimSpace(Columns(ln.text, 13, 16)),
          altLoc |-> ln.text[17]]

ReadText(lines) ==
    IF \E i \in 1..Len(lines) : TooShort(lines[i]) \/ BadNumber(lines[i])
    THEN [err |-> "DecodeError", entry |-> EmptyEntry]
    ELSE ReadPDB([i \in 1..Len(lines) |-> ParsedLine(lines, i)])

(***************************************************************************)
(* The state machine: one file is decoded, then the operations of the      *)
(* engine are applied to the pair that is held.                            *)
(***************************************************************************)
\* The coordinate records of the files: two chains, two models, one residue
\* with one atom name, blank or tagged A; and a heteroatom of another residue.
Lines ==
    {CoordLine("ATOM", m, c, 1, "CA", t) :
        m \in ModelNums, c \in ChainIds, t \in {Blank, "A"}}

HetLine == CoordLine("HETATM", 1, "B", 2, "CB", "B")

SeqsUpTo(S, n) == UNION {[1..k -> S] : k \in 0..n}

\* MODEL records number the models upwards: the model of a line is never
\* below the model of the line before it.
ModelsAscend(f) == \A i \in 1..(Len(f) - 1) : f[i].model <= f[i + 1].model

\* The files: coordinate records in any order of chains and tags, and the
\* same with a header line first, a heteroatom last or a cut line last.
Files ==
    LET plain == {f \in SeqsUpTo(Lines, MaxLines) : ModelsAscend(f)}
        short == SeqsUpTo(Lines, 1)
    IN plain
       \cup {<<OtherLine>> \o f \o <<HetLine>> : f \in short}
       \cup {f \o <<ShortLine>> : f \in short}

cA == <<"A">>
cB == <<"B">>
cC == <<"C">>
cAB == <<"A", "B">>
ChainLists == {<<cA>>, <<cB>>, <<cA, cB>>, <<cC>>, <<cAB>>}

Start(f) ==
    /\ file = f
    /\ phase = "input"
    /\ entry = EmptyEntry
    /\ altLocList = <<>>
    /\ inEntry = EmptyEntry
    /\ inAltLocList = <<>>
    /\ op = "none"
    /\ arg = <<>>
    /\ err = "nil"
    /\ warn = 0
    /\ history = {}
    /\ output = <<>>
    /\ tmpfiles = {}

Init == \E f \in Files : Start(f)

\* A command applies an operation at most once to the pair it holds; input
\* is the pair it was called with, as the call leaves it.
Called(name, a, input) ==
    /\ name \notin history
    /\ inEntry' = input.entry
    /\ inAltLocList' = input.altLocList
    /\ op' = name
    /\ arg' = a
    /\ history' = history \cup {name}
    /\ UNCHANGED file

Decode ==
    /\ phase = "input"
    /\ LET r == ReadPDBWithAltLoc(file) IN
         /\ err' = r.err
         /\ phase' = IF r.err = "nil" THEN "ready" ELSE "failed"
         /\ entry' = r.entry
         /\ altLocList' = r.altLocList
    /\ op' = "decode"
    /\ UNCHANGED <<file, inEntry, inAltLocList, arg, warn, history, output,
                   tmpfiles>>

Extract ==
    /\ phase = "ready"
    /\ \E chainList \in ChainLists :
         LET r == ExtractChainsPDB(entry, chainList, altLocList) IN
           /\ entry' = r.entry
           /\ altLocList' = r.altLocList
           /\ err' = r.err
           /\ Called("extract", chainList,
                     InputAfterExtract(entry, altLocList, chainList))
    /\ UNCHANGED <<phase, warn, output, tmpfiles>>

Filter ==
    /\ phase = "ready"
    /\ \E altlocFilter \in Selectors :
       \E orders \in MapOrders(entry) :
         LET r == filterByAltLoc(entry, altLocList, altlocFilter, orders) IN
           /\ err' = r.err
           /\ phase' = IF r.err = "panic" THEN "crashed" ELSE "ready"
           /\ entry' = r.entry
           /\ altLocList' = r.altLocList
           /\ Called("filter", altlocFilter,
                     InputAfterFilter(entry, altLocList, altlocFilter))
    /\ UNCHANGED <<warn, output, tmpfiles>>

\* rename-chain works on the Entry as decoded.
Rename ==
    /\ phase = "ready"
    /\ history = {}
    /\ \E oldChainID \in ChainIds, newChainID \in ChainIds :
         LET r == renameChainPDB(entry, oldChainID, newChainID) IN
           /\ err' = r.err
           /\ warn' = r.warn
           /\ phase' = IF r.err = "nil" THEN "ready" ELSE "failed"
           /\ entry' = r.entry
           /\ Called("rename", <<oldChainID, newChainID>>,
                     InputAfterRename(entry, altLocList, oldChainID, newChainID))
    /\ UNCHANGED <<altLocList, output, tmpfiles>>

Next == Decode \/ Extract \/ Filter \/ Rename

Spec == Init /\ [][Next]_vars

(***************************************************************************)
(* The extract command on files with alternate locations: one file is      *)
(* decoded and filtered.  The records of such a file come model by model,  *)
(* chain by chain and residue by residue.                                  *)
(***************************************************************************)
Positions == <<[chain |-> "A", model |-> 1, resSeq |-> 1],
               [chain |-> "A", model |-> 1, resSeq |-> 2],
               [chain |-> "B", model |-> 1, resSeq |-> 1],
               [chain |-> "A", model |-> 2, resSeq |-> 1]>>

NamedTags == {<<"CA", Blank>>, <<"CA", "A">>, <<"CA", "B">>, <<"CB", "B">>}

Ascending(k) ==
    {ps \in [1..k -> DOMAIN Positions] : \A i \in 1..(k - 1) : ps[i] <= ps[i + 1]}

FilterFile(ps, nts) ==
    [i \in DOMAIN ps |->
        CoordLine("ATOM", Positions[ps[i]].model, Positions[ps[i]].chain,
                  Positions[ps[i]].resSeq, nts[i][1], nts[i][2])]

FilterFiles ==
    UNION {{FilterFile(ps, nts) : ps \in Ascending(k), nts \in [1..k -> NamedTags]} :
              k \in 0..MaxLines}

InitFilter == \E f \in FilterFiles : Start(f)

NextFilter == Decode \/ Filter

SpecFilter == InitFilter /\ [][NextFilter]_vars

(***************************************************************************)
(* The renumber-residues command, and renumberResiduesPDB called on an     *)
(* Entry that is held.  A file has records of chain A in two models and of *)
(* chain B, with residue numbers in any order; an Entry can also be handed *)
(* to the engine as built by a caller, with a model that has no residue.   *)
(***************************************************************************)
RenumberPositions == <<[chain |-> "A", model |-> 1],
                       [chain |-> "A", model |-> 2],
                       [chain |-> "B", model |-> 1]>>

ResSeqs == {-1, 0, 2}
StartNums == {-1, 0, 1}
RenumberChainIDs == {<<>>, <<"A">>, <<"B">>, <<"A", "B">>}

RenumberArgs ==
    [startNum : StartNums, chainID : RenumberChainIDs,
     forceSequential : BOOLEAN, excludeZero : BOOLEAN]

AscendingIn(k, n) ==
    {ps \in [1..k -> 1..n] : \A i \in 1..(k - 1) : ps[i] <= ps[i + 1]}

RenumberFile(ps, ns) ==
    [i \in DOMAIN ps |->
        CoordLine("ATOM", RenumberPositions[ps[i]].model,
                  RenumberPositions[ps[i]].chain, ns[i], "CA", Blank)]

RenumberFiles ==
    UNION {{RenumberFile(ps, ns) : ps \in AscendingIn(k, Len(RenumberPositions)),
                                   ns \in [1..k -> ResSeqs]} :
              k \in 0..MaxLines}

\* An Entry built by a caller: chain A with a model without residues and a
\* model with one residue, and chain B.
DirectEntry ==
    LET atom == [Name |-> "CA", Het |-> FALSE, Coords |-> 1]
        residue(n) == [Name |-> "A", SequenceNum |-> n, InsertionCode |-> Blank,
                       Atoms |-> <<atom>>]
    IN [Chains |-> <<[Ident |-> "A",
                      Models |-> <<[Num |-> 1, Residues |-> <<>>],
                                   [Num |-> 2, Residues |-> <<residue(2)>>]>>],
                     [Ident |-> "B",
                      Models |-> <<[Num |-> 1, Residues |-> <<residue(0)>>]>>]>>]

Held(e) ==
    /\ file = <<>>
    /\ phase = "ready"
    /\ entry = e
    /\ altLocList = <<>>
    /\ inEntry = EmptyEntry
    /\ inAltLocList = <<>>
    /\ op = "none"
    /\ arg = <<>>
    /\ err = "nil"
    /\ warn = 0
    /\ history = {}
    /\ output = <<>>
    /\ tmpfiles = {}

InitRenumber == (\E f \in RenumberFiles : Start(f)) \/ Held(DirectEntry)

\* renumberResiduesPDB on the Entry as decoded or as handed over.
Renumber ==
    /\ phase = "ready"
    /\ history = {}
    /\ \E a \in RenumberArgs :
         LET r == renumberResiduesPDB(entry, a.startNum, a.chainID,
                                      a.forceSequential, a.excludeZero) IN
           /\ err' = r.err
           /\ phase' = IF r.err = "nil" THEN "ready" ELSE "failed"
           /\ entry' = r.entry
           /\ Called("renumber", a, InputAfterRenumber(entry, altLocList, a))
    /\ UNCHANGED <<altLocList, warn, output, tmpfiles>>

\* The renumber-residues command on the input file.
RunRenumberResidues ==
    /\ phase = "input"
    /\ \E a \in RenumberArgs :
         LET r == runRenumberResidues(file, a.startNum, a.chainID,
                                      a.forceSequential, a.excludeZero) IN
           /\ err' = r.err
           /\ phase' = IF r.err = "nil" THEN "ready" ELSE "failed"
           /\ entry' = r.entry
           /\ inEntry' = r.read
           /\ arg' = a
    /\ op' = "renumber-residues"
    /\ history' = history \cup {"renumber-residues"}
    /\ UNCHANGED <<file, altLocList, inAltLocList, warn, output, tmpfiles>>

NextRenumber == Decode \/ Renumber \/ RunRenumberResidues

SpecRenumber == InitRenumber /\ [][NextRenumber]_vars

(***************************************************************************)
(* The four operations of the engine on one decoded pair: an Entry is      *)
(* extracted from, filtered, renamed or renumbered, and what an operation  *)
(* returns is given to the operations after it.                            *)
(***************************************************************************)
TransformFiles == {f \in Files : Len(f) < MaxLines}

InitTransform == \E f \in TransformFiles : Start(f)

NextTransform == Decode \/ Extract \/ Filter \/ Rename \/ Renumber

SpecTransform == InitTransform /\ [][NextTransform]_vars

(***************************************************************************)
(* Input that arrives as content (standard input): it is decoded by        *)
(* readPDBFromContent (rename-chain, renumber-residues) or by              *)
(* ReadPDBWithAltLocFromContent (extract).  arg holds what the file system *)
(* did and the temporary file the call created.                            *)
(***************************************************************************)
InitContent == \E f \in Files : Start(f)

ReadFromContent ==
    /\ phase = "input"
    /\ \E io \in IoOutcomes :
         LET r == readPDBFromContent(file, tmpfiles, io) IN
           /\ err' = r.err
           /\ phase' = IF r.err = "nil" THEN "ready" ELSE "failed"
           /\ entry' = r.entry
           /\ tmpfiles' = r.tmpfiles
           /\ arg' = [io |-> io, created |-> r.created]
    /\ op' = "readPDBFromContent"
    /\ UNCHANGED <<file, altLocList, inEntry, inAltLocList, warn, history, output>>

ReadWithAltLocFromContent ==
    /\ phase = "input"
    /\ \E io \in IoOutcomes :
         LET r == ReadPDBWithAltLocFromContent(file, tmpfiles, io) IN
           /\ err' = r.err
           /\ phase' = IF r.err = "nil" THEN "ready" ELSE "failed"
           /\ entry' = r.entry
           /\ altLocList' = r.altLocList
           /\ tmpfiles' = r.tmpfiles
           /\ arg' = [io |-> io, created |-> r.created]
    /\ op' = "ReadPDBWithAltLocFromContent"
    /\ UNCHANGED <<file, inEntry, inAltLocList, warn, history, output>>

NextContent == ReadFromContent \/ ReadWithAltLocFromContent

SpecContent == InitContent /\ [][NextContent]_vars

(***************************************************************************)
(* formatAtomName on the atom names of one to four characters: an element  *)
(* letter first, a digit first, a lower-case second letter.  arg is the    *)
(* name and output the field that is returned.                             *)
(***************************************************************************)
AtomNameChars == {"C", "A", "H", "1", "e"}
AtomNames == UNION {[1..k -> AtomNameChars] : k \in 1..NameWidth}

InitFormat ==
    \E name \in AtomNames :
        /\ file = <<>>
        /\ phase = "input"
        /\ entry = EmptyEntry
        /\ altLocList = <<>>
        /\ inEntry = EmptyEntry
        /\ inAltLocList = <<>>
        /\ op = "none"
        /\ arg = name
        /\ err = "nil"
        /\ warn = 0
        /\ history = {}
        /\ output = <<>>
        /\ tmpfiles = {}

FormatAtomName ==
    /\ phase = "input"
    /\ output' = <<formatAtomName(arg)>>
    /\ op' = "formatAtomName"
    /\ phase' = "ready"
    /\ UNCHANGED <<file, entry, altLocList, inEntry, inAltLocList, arg, err, warn,
                   history, tmpfiles>>

NextFormat == FormatAtomName

SpecFormat == InitFormat /\ [][NextFormat]_vars

(***************************************************************************)
(* The writer on a decoded Entry, and its text read again.  The files have *)
(* chains A and B in models 1 and 2, model by model as a file has them;    *)
(* the atom names are a name of two characters, a hydrogen name with its   *)
(* digit first and a name of four characters.                              *)
(***************************************************************************)
EncodePositions ==
    <<[model |-> 1, chain |-> "A", resSeq |-> -1, resName |-> <<"A", "L", "A">>],
      [model |-> 1, chain |-> "B", resSeq |-> 2, resName |-> <<"G", "L", "Y">>],
      [model |-> 2, chain |-> "A", resSeq |-> -1, resName |-> <<"A", "L", "A">>],
      [model |-> 2, chain |-> "B", resSeq |-> 2, resName |-> <<"G", "L", "Y">>]>>

EncodeAtoms ==
    {<<"ATOM", <<"C", "A">>>>, <<"ATOM", <<"1", "H", "A">>>>,
     <<"ATOM", <<"H", "A", "1", "1">>>>, <<"HETATM", <<"C", "A">>>>}

EncodeFile(ps, as) ==
    [i \in DOMAIN ps |->
        [CoordLine(as[i][1], EncodePositions[ps[i]].model,
                   EncodePositions[ps[i]].chain, EncodePositions[ps[i]].resSeq,
                   as[i][2], Blank)
         EXCEPT !.resName = EncodePositions[ps[i]].resName]]

EncodeFiles ==
    UNION {{EncodeFile(ps, as) : ps \in AscendingIn(k, Len(EncodePositions)),
                                 as \in [1..k -> EncodeAtoms]} :
              k \in 0..MaxLines}

InitEncode == \E f \in EncodeFiles : Start(f)

\* writePDBToWriter on the Entry that is held.
Encode ==
    /\ phase = "ready"
    /\ output' = writePDBToWriter(entry)
    /\ Called("writePDBToWriter", <<>>, [entry |-> entry, altLocList |-> altLocList])
    /\ UNCHANGED <<phase, entry, altLocList, err, warn, tmpfiles>>

\* The text that was written is decoded; inEntry is the Entry it was
\* written from.
Reread ==
    /\ op = "writePDBToWriter"
    /\ LET r == ReadText(output) IN
         /\ err' = r.err
         /\ phase' = IF r.err = "nil" THEN "ready" ELSE "failed"
         /\ entry' = r.entry
    /\ inEntry' = entry
    /\ op' = "reread"
    /\ UNCHANGED <<file, altLocList, inAltLocList, arg, warn, history, output,
                   tmpfiles>>

NextEncode == Decode \/ Encode \/ Reread

SpecEncode == InitEncode /\ [][NextEncode]_vars

(***************************************************************************)
(* Vocabulary of the properties.                                           *)
(***************************************************************************)
OneCharacterIds(chainList) == \A i \in 1..Len(chainList) : Len(chainList[i]) = 1
RequestedIds(chainList) == {chainList[i][1] : i \in 1..Len(chainList)}

\* The tag an atom had in the input side table, flat being the input in
\* traversal order (its atoms differ from each other).
InputTag(flat, atom) == inAltLocList[CHOOSE i \in DOMAIN flat : flat[i] = atom]

Aligned(e, altLoc) == Len(altLoc) = EntryAtomCount(e)

Extracted == op = "extract" /\ err = "nil"

(***************************************************************************)
(* C1.  ExtractChainsPDB(E, S), S a set of one-character identifiers,      *)
(* returns the chains of E whose identifier is in S - every one of them,   *)
(* also when several share an identifier - in the order they have in E,    *)
(* and no other chain.                                                     *)
(***************************************************************************)
C1_ExtractKeepsRequestedChains ==
    (Extracted /\ OneCharacterIds(arg)) =>
        LET requested(chain) == chain.Ident \in RequestedIds(arg)
        IN entry.Chains = SelectSeq(inEntry.Chains, requested)

\* Two chains that share one identifier are both kept.
C1_Witness ==
    /\ Extracted /\ OneCharacterIds(arg)
    /\ Len(inEntry.Chains) = 2
    /\ inEntry.Chains[1].Ident = inEntry.Chains[2].Ident
    /\ Len(entry.Chains) = 2

(***************************************************************************)
(* C2.  Called with a side table aligned with the Entry, ExtractChainsPDB  *)
(* returns the tags of the atoms of the chains it keeps, in traversal      *)
(* order: every atom kept, alternate-location duplicates included, has in  *)
(* the output side table the tag it had in the input side table.           *)
(***************************************************************************)
C2_ExtractKeepsTags ==
    (Extracted /\ Aligned(inEntry, inAltLocList)) =>
        LET flat == FlatAtoms(inEntry)
            out == FlatAtoms(entry)
        IN altLocList = [i \in DOMAIN out |-> InputTag(flat, out[i])]

\* The second chain of two is kept, with two atoms of one name in one
\* residue that carry different tags.
C2_Witness ==
    /\ Extracted /\ Aligned(inEntry, inAltLocList)
    /\ Len(inEntry.Chains) = 2
    /\ ChainAtomCount(inEntry.Chains[1]) > 0
    /\ entry.Chains = <<inEntry.Chains[2]>>
    /\ \E i, j \in 1..Len(altLocList) :
          /\ i < j
          /\ altLocList[i] # altLocList[j]
          /\ FlatAtoms(entry)[i].Name = FlatAtoms(entry)[j].Name

(***************************************************************************)
(* C3.  After decoding, and after any chain extractions and ALTLOC         *)
(* filterings of the decoded pair, the side table is as long as the Entry  *)
(* has atoms.                                                              *)
(***************************************************************************)
C3_SideTableLength ==
    (phase = "ready" /\ history \subseteq {"extract", "filter"}) =>
        Len(altLocList) = EntryAtomCount(entry)

\* Extraction and filtering have both removed atoms and some are left.
C3_Witness ==
    /\ phase = "ready"
    /\ history = {"extract", "filter"}
    /\ Len(altLocList) > 0
    /\ Len(altLocList) + 2 <= Len(ScanAltLoc(file))
    /\ Len(altLocList) = EntryAtomCount(entry)

(***************************************************************************)
(* C4.  For every file, entry i of the decoded side table is the column-17 *)
(* tag of the i-th atom in the chain -> model -> residue -> atom traversal *)
(* of the decoded Entry.                                                   *)
(***************************************************************************)
C4_SideTableFollowsTraversal ==
    (op = "decode" /\ phase = "ready") =>
        altLocList = [i \in 1..Len(FlatAtoms(entry)) |->
                         file[FlatAtoms(entry)[i].Coords].altLoc]

(***************************************************************************)
(* Vocabulary of the properties of filterByAltLoc.  loc is the input in    *)
(* traversal order, each atom with the residue it is in; atom i has the    *)
(* tag inAltLocList[i]; out is the output in traversal order.              *)
(***************************************************************************)
Located(e) ==
    Concat([c \in 1..Len(e.Chains) |->
        Concat([m \in 1..Len(e.Chains[c].Models) |->
            Concat([r \in 1..Len(e.Chains[c].Models[m].Residues) |->
                [k \in 1..Len(e.Chains[c].Models[m].Residues[r].Atoms) |->
                    [atom |-> e.Chains[c].Models[m].Residues[r].Atoms[k],
                     res |-> <<c, m, r>>]]])])])

InTag(i) == inAltLocList[i]

\* The atoms with the name of atom i in the residue of atom i.
NameGroup(loc, i) ==
    {j \in DOMAIN loc : loc[j].res = loc[i].res /\ loc[j].atom.Name = loc[i].atom.Name}

Min(S) == CHOOSE x \in S : \A y \in S : x <= y

\* The atom is in the output, with its name and its coordinates.
Retained(out, atom) == \E j \in DOMAIN out : out[j] = atom

\* The tag the output side table has for an atom of the output.
OutTag(out, atom) == altLocList[CHOOSE j \in DOMAIN out : out[j] = atom]

Filtered == op = "filter" /\ err = "nil"
SpecificFilter == Filtered /\ arg # First /\ Len(arg) = 1
FirstFilter == Filtered /\ arg = First

(***************************************************************************)
(* C5.  With a specific one-character selector T, of every name group of   *)
(* a residue that has more than one atom, filterByAltLoc keeps exactly the *)
(* members whose tag is T or blank.                                        *)
(***************************************************************************)
C5_SpecificTagKeepsTagOrBlank ==
    SpecificFilter =>
        LET loc == Located(inEntry)
            out == FlatAtoms(entry)
        IN \A i \in DOMAIN loc :
              Cardinality(NameGroup(loc, i)) > 1 =>
                  (Retained(out, loc[i].atom) <=> (InTag(i) = arg[1] \/ InTag(i) = Blank))

\* A group with the tag T and another tag: the member tagged T is kept,
\* the other one is not.
C5_Witness ==
    /\ SpecificFilter
    /\ LET loc == Located(inEntry)
           out == FlatAtoms(entry)
       IN \E i \in DOMAIN loc : \E j \in NameGroup(loc, i) :
             /\ InTag(i) = arg[1] /\ Retained(out, loc[i].atom)
             /\ InTag(j) \notin {arg[1], Blank} /\ ~Retained(out, loc[j].atom)

(***************************************************************************)
(* C6.  As claimed: with a specific selector T, an atom that is the only   *)
(* one of its name in its residue is kept whatever its tag is.             *)
(***************************************************************************)
C6_SingleMemberAlwaysKept ==
    SpecificFilter =>
        LET loc == Located(inEntry)
            out == FlatAtoms(entry)
        IN \A i \in DOMAIN loc :
              Cardinality(NameGroup(loc, i)) = 1 => Retained(out, loc[i].atom)

(***************************************************************************)
(* C6, amended.  With a specific selector T, an atom that is the only one  *)
(* of its name in its residue is kept exactly when its tag is T or blank.  *)
(***************************************************************************)
C6_SingleMemberKeptOnTagOrBlank ==
    SpecificFilter =>
        LET loc == Located(inEntry)
            out == FlatAtoms(entry)
        IN \A i \in DOMAIN loc :
              Cardinality(NameGroup(loc, i)) = 1 =>
                  (Retained(out, loc[i].atom) <=> (InTag(i) = arg[1] \/ InTag(i) = Blank))

\* A lone atom with another tag is dropped, next to a lone atom tagged T
\* that is kept.
C6_Witness ==
    /\ SpecificFilter
    /\ LET loc == Located(inEntry)
           out == FlatAtoms(entry)
       IN \E i, j \in DOMAIN loc :
             /\ Cardinality(NameGroup(loc, i)) = 1
             /\ Cardinality(NameGroup(loc, j)) = 1
             /\ InTag(i) \notin {arg[1], Blank} /\ ~Retained(out, loc[i].atom)
             /\ InTag(j) = arg[1] /\ Retained(out, loc[j].atom)

(***************************************************************************)
(* C7.  With the selector "first", of every name group with more than one  *)
(* member exactly one is kept - the first in file order that has a         *)
(* non-blank tag, or the first when all tags are blank - and every group   *)
(* of one member is kept; so no residue of the output has two atoms of one *)
(* name.                                                                   *)
(***************************************************************************)
FirstChoice(loc, i) ==
    LET tagged == {j \in NameGroup(loc, i) : InTag(j) # Blank}
    IN IF tagged = {} THEN Min(NameGroup(loc, i)) ELSE Min(tagged)

C7_FirstKeepsOnePerName ==
    FirstFilter =>
        LET loc == Located(inEntry)
            out == FlatAtoms(entry)
            res == EntryResidues(entry)
        IN /\ \A i \in DOMAIN loc :
                 Retained(out, loc[i].atom) <=> (i = FirstChoice(loc, i))
           /\ \A r \in DOMAIN res :
                 \A k, l \in DOMAIN res[r].Atoms :
                     k # l => res[r].Atoms[k].Name # res[r].Atoms[l].Name

\* A group that starts with a blank member and has a tagged one later: the
\* tagged one is kept.
C7_Witness ==
    /\ FirstFilter
    /\ LET loc == Located(inEntry)
           out == FlatAtoms(entry)
       IN \E i \in DOMAIN loc : \E j \in NameGroup(loc, i) :
             /\ i < j
             /\ InTag(i) = Blank /\ InTag(j) # Blank
             /\ Retained(out, loc[j].atom) /\ ~Retained(out, loc[i].atom)

(***************************************************************************)
(* C8.  As claimed: for every selector, every atom with a blank tag is in  *)
(* the output, name and coordinates unchanged, with a blank tag in the     *)
(* output side table.                                                      *)
(***************************************************************************)
C8_BlankAlwaysPasses ==
    Filtered =>
        LET loc == Located(inEntry)
            out == FlatAtoms(entry)
        IN \A i \in DOMAIN loc :
              InTag(i) = Blank =>
                  (Retained(out, loc[i].atom) /\ OutTag(out, loc[i].atom) = Blank)

(***************************************************************************)
(* C8, amended.  For a specific selector every atom with a blank tag is in *)
(* the output, name and coordinates unchanged, with a blank tag in the     *)
(* output side table; for "first" that holds of the blank atoms that are   *)
(* alone in their name group or the first member of a group whose tags are *)
(* all blank, and the other blank atoms are not in the output.             *)
(***************************************************************************)
C8_BlankPassesUnlessFirstPrefersOther ==
    Filtered =>
        LET loc == Located(inEntry)
            out == FlatAtoms(entry)
        IN \A i \in DOMAIN loc :
              InTag(i) = Blank =>
                  IF arg = First /\ i # FirstChoice(loc, i)
                  THEN ~Retained(out, loc[i].atom)
                  ELSE Retained(out, loc[i].atom) /\ OutTag(out, loc[i].atom) = Blank

\* A specific selector keeps a blank member next to a member it selects.
C8_Witness ==
    /\ SpecificFilter
    /\ LET loc == Located(inEntry)
           out == FlatAtoms(entry)
       IN \E i \in DOMAIN loc : \E j \in NameGroup(loc, i) :
             /\ InTag(i) = Blank /\ InTag(j) = arg[1]
             /\ Retained(out, loc[i].atom) /\ Retained(out, loc[j].atom)
             /\ OutTag(out, loc[i].atom) = Blank

(***************************************************************************)
(* C9.  As claimed: in the output of filterByAltLoc every residue has an   *)
(* atom, every model has a residue, and every chain of the input is        *)
(* present, a chain left with no model included.                           *)
(***************************************************************************)
IdentOf(chain) == chain.Ident

NoEmptyResidueOrModel ==
    \A c \in DOMAIN entry.Chains :
        \A m \in DOMAIN entry.Chains[c].Models :
            /\ Len(entry.Chains[c].Models[m].Residues) > 0
            /\ \A r \in DOMAIN entry.Chains[c].Models[m].Residues :
                  Len(entry.Chains[c].Models[m].Residues[r].Atoms) > 0

C9_EveryChainStays ==
    Filtered =>
        /\ NoEmptyResidueOrModel
        /\ Map(entry.Chains, IdentOf) = Map(inEntry.Chains, IdentOf)

(***************************************************************************)
(* C9, amended.  In the output of filterByAltLoc every residue has an      *)
(* atom and every model has a residue; the chains of the output are the    *)
(* chains of the input of which an atom is kept, in their order: a chain   *)
(* left with no model is not in the output.                                *)
(***************************************************************************)
C9_EmptyChainIsDropped ==
    Filtered =>
        LET out == FlatAtoms(entry)
            keepsAnAtom(chain) ==
                \E k \in DOMAIN ChainAtoms(chain) : Retained(out, ChainAtoms(chain)[k])
        IN /\ NoEmptyResidueOrModel
           /\ \A c \in DOMAIN entry.Chains : Len(entry.Chains[c].Models) > 0
           /\ Map(entry.Chains, IdentOf) =
                  Map(SelectSeq(inEntry.Chains, keepsAnAtom), IdentOf)

\* One chain loses all its atoms and is gone; the other one loses a residue
\* or a model and stays.
C9_Witness ==
    /\ Filtered
    /\ Len(inEntry.Chains) = 2
    /\ Len(entry.Chains) = 1
    /\ Len(EntryResidues(entry)) < Len(EntryResidues(inEntry)) - 1

(***************************************************************************)
(* C10.  filterByAltLoc called with an empty selector returns an error     *)
(* (InvalidSelectorError) and no filtered Entry, whatever the Entry is.    *)
(***************************************************************************)
C10_EmptySelectorIsAnError ==
    (op = "filter" /\ arg = EmptySelector) => err = "InvalidSelectorError"

(***************************************************************************)
(* Vocabulary of the properties of renameChainPDB: arg is the pair of the  *)
(* old and the new identifier.                                             *)
(***************************************************************************)
RenameCalled == op = "rename"
CarriedBy(e, id) == {c \in DOMAIN e.Chains : e.Chains[c].Ident = id}
RenamedIdent(chain) == IF chain.Ident = arg[1] THEN arg[2] ELSE chain.Ident

(***************************************************************************)
(* C11.  When a chain carries the old identifier, renameChainPDB returns   *)
(* an Entry with the chains of the input in their order, the old           *)
(* identifier replaced by the new one and every other identifier kept, and *)
(* with the models, the residues (name, number, insertion code) and the    *)
(* atoms of every chain as they are in the input.                          *)
(***************************************************************************)
C11_RenameKeepsContent ==
    (RenameCalled /\ CarriedBy(inEntry, arg[1]) # {}) =>
        /\ err = "nil"
        /\ entry = [Chains |-> [c \in DOMAIN inEntry.Chains |->
                        [inEntry.Chains[c] EXCEPT !.Ident = RenamedIdent(inEntry.Chains[c])]]]

(***************************************************************************)
(* C12.  When no chain carries the old identifier, renameChainPDB returns  *)
(* an error and no Entry and writes no warning, whatever the new           *)
(* identifier is.                                                          *)
(***************************************************************************)
C12_AbsentOldIsAnErrorWithoutWarning ==
    (RenameCalled /\ CarriedBy(inEntry, arg[1]) = {}) =>
        /\ err # "nil"
        /\ phase = "failed"
        /\ entry = EmptyEntry
        /\ warn = 0

\* The old identifier is absent and the new one is carried by a chain.
C12_Witness ==
    /\ RenameCalled
    /\ CarriedBy(inEntry, arg[1]) = {}
    /\ CarriedBy(inEntry, arg[2]) # {}
    /\ err = "chain does not exist"
    /\ warn = 0

(***************************************************************************)
(* C13.  When a chain carries the old identifier and another chain carries *)
(* the new one, renameChainPDB returns no error and the Entry with the     *)
(* identifiers renamed, and writes exactly one warning.                    *)
(***************************************************************************)
Collision ==
    \E c \in CarriedBy(inEntry, arg[1]) : \E d \in CarriedBy(inEntry, arg[2]) : c # d

C13_CollisionWarnsOnce ==
    (RenameCalled /\ Collision) =>
        /\ err = "nil"
        /\ phase = "ready"
        /\ warn = 1
        /\ Map(entry.Chains, IdentOf) = Map(inEntry.Chains, RenamedIdent)

\* Chain A is renamed to B next to a chain B: both chains of the output
\* carry B.
C13_Witness ==
    /\ RenameCalled /\ Collision
    /\ arg[1] # arg[2]
    /\ warn = 1
    /\ Len(entry.Chains) = 2
    /\ entry.Chains[1].Ident = arg[2] /\ entry.Chains[2].Ident = arg[2]

(***************************************************************************)
(* Vocabulary of the properties of renumberResiduesPDB: arg holds          *)
(* startNum, chainID, forceSequential and excludeZero; inEntry is the      *)
(* Entry the engine was given, by a caller or by the command after         *)
(* decoding.                                                               *)
(***************************************************************************)
RenumberCalled == op \in {"renumber", "renumber-residues"}
Renumbered == RenumberCalled /\ err = "nil"
ValidChainID == Len(arg.chainID) <= 1
Targeted(chain) == arg.chainID = <<>> \/ chain.Ident = arg.chainID[1]

\* The positions of the chains that a valid chainID targets.
TargetedChains ==
    IF ValidChainID
    THEN {c \in DOMAIN inEntry.Chains : Targeted(inEntry.Chains[c])}
    ELSE {}

\* The output has the chains, models and residues of the input, one for one.
SameShape ==
    /\ Len(entry.Chains) = Len(inEntry.Chains)
    /\ \A c \in DOMAIN inEntry.Chains :
          /\ Len(entry.Chains[c].Models) = Len(inEntry.Chains[c].Models)
          /\ \A m \in DOMAIN inEntry.Chains[c].Models :
                Len(entry.Chains[c].Models[m].Residues) =
                    Len(inEntry.Chains[c].Models[m].Residues)

\* The models of the targeted chains, each as the pair of the input model
\* and the output model.
TargetedModels ==
    UNION {{<<inEntry.Chains[c].Models[m], entry.Chains[c].Models[m]>> :
               m \in DOMAIN inEntry.Chains[c].Models} : c \in TargetedChains}

Numbers(model) ==
    [j \in DOMAIN model.Residues |-> model.Residues[j].SequenceNum]

\* A chain with the sequence numbers of its residues left out.
Unnumbered(chain) ==
    [Ident |-> chain.Ident,
     Models |-> [m \in DOMAIN chain.Models |->
        [Num |-> chain.Models[m].Num,
         Residues |-> [r \in DOMAIN chain.Models[m].Residues |->
            [Name |-> chain.Models[m].Residues[r].Name,
             InsertionCode |-> chain.Models[m].Residues[r].InsertionCode,
             Atoms |-> chain.Models[m].Residues[r].Atoms]]]]]

\* The number a residue numbered n gets from the offset of its model.
Shifted(nums, n) == n + (arg.startNum - Min({nums[j] : j \in DOMAIN nums}))

(***************************************************************************)
(* C14.  With a target chain identifier, every chain of the input with     *)
(* another identifier is in the output of renumberResiduesPDB at the same  *)
(* position, with the same identifier, models, residue names, residue      *)
(* numbers, insertion codes and atoms.                                     *)
(***************************************************************************)
C14_OtherChainsUnchanged ==
    (Renumbered /\ Len(arg.chainID) = 1) =>
        /\ Len(entry.Chains) = Len(inEntry.Chains)
        /\ \A c \in DOMAIN inEntry.Chains :
              inEntry.Chains[c].Ident # arg.chainID[1] =>
                  entry.Chains[c] = inEntry.Chains[c]

(***************************************************************************)
(* C15.  In a targeted chain renumberResiduesPDB changes residue sequence  *)
(* numbers only: the models and residues, their number and order, every    *)
(* model number and the name, insertion code and atoms of every residue    *)
(* are those of the input.                                                 *)
(***************************************************************************)
C15_TargetedChainsKeepAllButNumbers ==
    (Renumbered /\ ValidChainID) =>
        /\ SameShape
        /\ \A c \in TargetedChains :
              Unnumbered(entry.Chains[c]) = Unnumbered(inEntry.Chains[c])

(***************************************************************************)
(* C16.  As claimed: without forceSequential, for every startNum and       *)
(* either excludeZero, every residue number of a model of a targeted chain *)
(* is shifted by startNum - min(residue numbers of the model), so that the *)
(* differences between the numbers are those of the input; a model without *)
(* residues stays without residues.                                        *)
(***************************************************************************)
C16_OffsetShiftsEveryNumber ==
    (Renumbered /\ ValidChainID /\ ~arg.forceSequential) =>
        /\ SameShape
        /\ \A p \in TargetedModels :
              LET nums == Numbers(p[1]) IN
              Numbers(p[2]) = [j \in DOMAIN nums |-> Shifted(nums, nums[j])]

(***************************************************************************)
(* C16, amended.  Without forceSequential every residue number n of a      *)
(* model of a targeted chain becomes n + startNum - min(residue numbers of *)
(* the model), except that with excludeZero the residue for which that is  *)
(* 0 gets 1; a model without residues stays without residues.              *)
(***************************************************************************)
C16_OffsetShiftsButZero ==
    (Renumbered /\ ValidChainID /\ ~arg.forceSequential) =>
        /\ SameShape
        /\ \A p \in TargetedModels :
              LET nums == Numbers(p[1]) IN
              Numbers(p[2]) =
                  [j \in DOMAIN nums |->
                      IF arg.excludeZero /\ Shifted(nums, nums[j]) = 0
                      THEN 1 ELSE Shifted(nums, nums[j])]

\* A model whose first residue is not its lowest, with a gap, is shifted by
\* an offset that is not 0, and excludeZero replaces the 0 that results.
C16_Witness ==
    /\ Renumbered /\ ValidChainID /\ ~arg.forceSequential /\ arg.excludeZero
    /\ \E p \in TargetedModels :
          LET nums == Numbers(p[1]) IN
          /\ Len(nums) = 3
          /\ nums[1] > nums[2]
          /\ Shifted(nums, 0) # 0
          /\ \E j \in DOMAIN nums :
                Shifted(nums, nums[j]) = 0 /\ Numbers(p[2])[j] = 1
          /\ \E j \in DOMAIN nums :
                Shifted(nums, nums[j]) > 1 /\ Numbers(p[2])[j] = Shifted(nums, nums[j])

(***************************************************************************)
(* C17.  With forceSequential, in every model of a targeted chain the k-th *)
(* residue gets the k-th integer of startNum, startNum + 1, ... - of that  *)
(* sequence without 0 when excludeZero is set - whatever the input numbers *)
(* are.                                                                    *)
(***************************************************************************)
KthFrom(startNum, k, excludeZero) ==
    IF excludeZero /\ startNum <= 0 /\ startNum + k - 1 >= 0
    THEN startNum + k
    ELSE startNum + k - 1

C17_SequentialCountsFromStart ==
    (Renumbered /\ ValidChainID /\ arg.forceSequential) =>
        /\ SameShape
        /\ \A p \in TargetedModels :
              Numbers(p[2]) =
                  [k \in DOMAIN p[1].Residues |->
                      KthFrom(arg.startNum, k, arg.excludeZero)]

\* Three residues with a gap, counted from -1 without 0: -1, 1, 2.
C17_Witness ==
    /\ Renumbered /\ ValidChainID /\ arg.forceSequential /\ arg.excludeZero
    /\ arg.startNum = -1
    /\ \E p \in TargetedModels :
          /\ Numbers(p[1]) = <<2, -1, 0>>
          /\ Numbers(p[2]) = <<-1, 1, 2>>

(***************************************************************************)
(* C18.  With excludeZero no residue of a targeted chain has the sequence  *)
(* number 0 in the output of renumberResiduesPDB, with and without         *)
(* forceSequential, for every startNum and every input numbering.          *)
(***************************************************************************)
C18_ExcludeZeroLeavesNoZero ==
    (Renumbered /\ ValidChainID /\ arg.excludeZero) =>
        /\ SameShape
        /\ \A p \in TargetedModels :
              \A j \in DOMAIN p[2].Residues : p[2].Residues[j].SequenceNum # 0

\* A residue that the offset of its model brings to 0 is there, not
\* numbered 0, in a chain renumbered without forceSequential.
C18_Witness ==
    /\ Renumbered /\ ValidChainID /\ arg.excludeZero /\ ~arg.forceSequential
    /\ \E p \in TargetedModels :
          LET nums == Numbers(p[1]) IN
          \E j \in DOMAIN nums :
              /\ nums[j] # 0
              /\ Shifted(nums, nums[j]) = 0
              /\ Numbers(p[2])[j] # 0

(***************************************************************************)
(* C19.  As claimed: excludeZero changes only the residue that would have  *)
(* been given 0: with and without forceSequential every other residue gets *)
(* the number it gets without excludeZero.                                 *)
(***************************************************************************)
\* The Entry the same call returns without excludeZero.
WithoutExcludeZero ==
    renumberResiduesPDB(inEntry, arg.startNum, arg.chainID, arg.forceSequential,
                        FALSE).entry

\* The models of the targeted chains, each as the pair of the numbers it
\* gets without excludeZero and the numbers it has in the output.
PlainAndOutput ==
    LET plain == WithoutExcludeZero IN
    UNION {{<<Numbers(plain.Chains[c].Models[m]),
              Numbers(entry.Chains[c].Models[m])>> :
               m \in DOMAIN inEntry.Chains[c].Models} : c \in TargetedChains}

C19_OnlyTheZeroResidueChanges ==
    (Renumbered /\ ValidChainID /\ arg.excludeZero) =>
        /\ SameShape
        /\ \A p \in PlainAndOutput :
              \A j \in DOMAIN p[1] : p[1][j] # 0 => p[2][j] = p[1][j]

(***************************************************************************)
(* C19, amended.  Without forceSequential excludeZero changes only the     *)
(* residue that would have been given 0, which gets 1.  With               *)
(* forceSequential the residue that would have been given 0 and every      *)
(* residue after it in the model get one more than without excludeZero,    *)
(* and the residues before it get the same number.                         *)
(***************************************************************************)
C19_ZeroResidueOrAllAfterIt ==
    (Renumbered /\ ValidChainID /\ arg.excludeZero) =>
        /\ SameShape
        /\ \A p \in PlainAndOutput :
              \A j \in DOMAIN p[1] :
                  p[2][j] = IF arg.forceSequential
                            THEN (IF p[1][j] >= 0 /\ arg.startNum <= 0
                                  THEN p[1][j] + 1 ELSE p[1][j])
                            ELSE (IF p[1][j] = 0 THEN 1 ELSE p[1][j])

\* With forceSequential from -1 the third residue gets 2, not 1.
C19_Witness ==
    /\ Renumbered /\ ValidChainID /\ arg.excludeZero /\ arg.forceSequential
    /\ \E p \in PlainAndOutput :
          /\ p[1] = <<-1, 0, 1>>
          /\ p[2] = <<-1, 1, 2>>

(***************************************************************************)
(* C20.  Given a target chain identifier of more than one character,       *)
(* renumbering fails with an error and renumbers no chain, in the command  *)
(* and when renumberResiduesPDB is called directly.                        *)
(***************************************************************************)
C20_LongChainIDIsAnError ==
    (RenumberCalled /\ Len(arg.chainID) > 1) =>
        /\ err # "nil"
        /\ entry = EmptyEntry

(***************************************************************************)
(* C21.  ExtractChainsPDB does not fail when a requested identifier is not *)
(* carried by a chain of the Entry: such an identifier adds nothing to the *)
(* result, and when no requested identifier is carried the result is an    *)
(* Entry without chains and an empty side table, not an error.             *)
(***************************************************************************)
C21_AbsentIdsAreNoError ==
    op = "extract" =>
        LET carried == {inEntry.Chains[c].Ident : c \in DOMAIN inEntry.Chains}
            present == ValidChains(arg) \cap carried
        IN /\ err = "nil"
           /\ phase = "ready"
           /\ {entry.Chains[c].Ident : c \in DOMAIN entry.Chains} = present
           /\ present = {} => (entry = EmptyEntry /\ altLocList = <<>>)

\* Chain C is asked of an Entry with atoms in other chains.
C21_Witness ==
    /\ op = "extract" /\ err = "nil"
    /\ arg = <<cC>>
    /\ EntryAtomCount(inEntry) > 1
    /\ Len(inAltLocList) > 1
    /\ entry = EmptyEntry
    /\ altLocList = <<>>

C27_FilterIsDeterministic ==
    Filtered =>
        /\ \A orders \in MapOrders(inEntry) :
              LET again == filterByAltLoc(inEntry, inAltLocList, arg, orders)
              IN again.entry = entry /\ again.altLocList = altLocList
        /\ LET flat == FlatAtoms(inEntry)
               out == FlatAtoms(entry)
               pos(atom) == CHOOSE i \in DOMAIN flat : flat[i] = atom
           IN \A j, k \in DOMAIN out : j < k => pos(out[j]) < pos(out[k])

(***************************************************************************)
(* C28.  renumberResiduesPDB is idempotent: called again with the same     *)
(* startNum, chainID, forceSequential and excludeZero on the Entry it      *)
(* returned, it returns the residue numbers of that Entry.                 *)
(***************************************************************************)
EntryNumbers(e) ==
    [c \in DOMAIN e.Chains |->
        [m \in DOMAIN e.Chains[c].Models |-> Numbers(e.Chains[c].Models[m])]]

C28_RenumberIsIdempotent ==
    Renumbered =>
        LET twice == renumberResiduesPDB(entry, arg.startNum, arg.chainID,
                                         arg.forceSequential, arg.excludeZero)
        IN twice.err = "nil" /\ EntryNumbers(twice.entry) = EntryNumbers(entry)

(***************************************************************************)
(* C29.  In a model of a targeted chain, residues whose numbers differ     *)
(* from each other in the input have numbers that differ from each other   *)
(* in the output of renumberResiduesPDB, with and without forceSequential, *)
(* also when excludeZero puts 1 for 0.                                     *)
(***************************************************************************)
Distinct(nums) == \A j, k \in DOMAIN nums : j # k => nums[j] # nums[k]

C29_DistinctNumbersStayDistinct ==
    (Renumbered /\ ValidChainID) =>
        /\ SameShape
        /\ \A p \in TargetedModels :
              Distinct(Numbers(p[1])) => Distinct(Numbers(p[2]))

(***************************************************************************)
(* C26.  When readPDBFromContent or ReadPDBWithAltLocFromContent returns,  *)
(* the temporary file it created does not exist any more, whether the      *)
(* decode succeeded, the write failed or the decode failed.                *)
(***************************************************************************)
ContentRead == op \in {"readPDBFromContent", "ReadPDBWithAltLocFromContent"}

C26_TempFileIsRemoved ==
    ContentRead => (arg.created \notin tmpfiles /\ tmpfiles = {})

\* A temporary file was created and the decode of it failed.
C26_Witness ==
    /\ ContentRead
    /\ arg.created # NoFile
    /\ arg.io = "ok"
    /\ err = "DecodeError"
    /\ tmpfiles = {}

(***************************************************************************)
(* C24.  For an atom name of one to four characters formatAtomName gives a *)
(* field of four characters: a name of four characters is the field; with  *)
(* an element symbol of one character the first column is blank and the    *)
(* name starts in the second; with an element symbol of two characters the *)
(* symbol is in the first two columns and the rest of the name is          *)
(* left-justified in the last two.                                         *)
(***************************************************************************)
C24_AtomNameFieldLayout ==
    op = "formatAtomName" =>
        LET name == arg
            field == output[1]
            element == extractElementSymbol(name)
        IN /\ Len(field) = NameWidth
           /\ Len(name) = NameWidth => field = name
           /\ (Len(name) < NameWidth /\ Len(element) = 1) =>
                  field = PadRight(<<Blank>> \o name, NameWidth)
           /\ (Len(name) < NameWidth /\ Len(element) = 2) =>
                  field = element \o PadRight(SubSeq(name, 3, Len(name)), 2)

(***************************************************************************)
(* Vocabulary of the writer's properties.                                  *)
(***************************************************************************)
Written == op = "writePDBToWriter"

MarkersAt(tag) == {i \in 1..Len(output) : output[i].tag = tag}

\* The lines after the MODEL line at i up to the next ENDMDL line.
BlockOf(i) ==
    LET ends == {j \in MarkersAt("ENDMDL") : j > i}
        end == IF ends = {} THEN Len(output) + 1
               ELSE CHOOSE j \in ends : \A k \in ends : j <= k
    IN {j \in (i + 1)..(end - 1) : output[j].tag = "coord"}

ModelNumsOf(e) ==
    UNION {{e.Chains[c].Models[m].Num : m \in 1..Len(e.Chains[c].Models)} :
              c \in 1..Len(e.Chains)}

\* The atoms that the chains of e have in their models numbered n.
AtomsOfModel(e, n) ==
    Concat([c \in 1..Len(e.Chains) |->
        Concat([m \in 1..Len(e.Chains[c].Models) |->
            IF e.Chains[c].Models[m].Num = n
            THEN ModelAtoms(e.Chains[c].Models[m]) ELSE <<>>])])

\* Chain identifiers, residue numbers, residue names and atom names of an
\* Entry, in order.
ResidueNaming(residue) ==
    [num |-> residue.SequenceNum, name |-> residue.Name,
     atoms |-> [a \in 1..Len(residue.Atoms) |-> residue.Atoms[a].Name]]

Naming(e) ==
    [c \in 1..Len(e.Chains) |->
        [ident |-> e.Chains[c].Ident,
         models |-> [m \in 1..Len(e.Chains[c].Models) |->
             [r \in 1..Len(e.Chains[c].Models[m].Residues) |->
                 ResidueNaming(e.Chains[c].Models[m].Residues[r])]]]]

(***************************************************************************)
(* C23.  The writer writes MODEL and ENDMDL lines if and only if some      *)
(* chain of the Entry has more than one model; for an Entry whose chains   *)
(* have at most one model each the output has no MODEL and no ENDMDL line. *)
(***************************************************************************)
C23_MarkersIffSomeChainHasModels ==
    Written =>
        IF \E c \in 1..Len(entry.Chains) : Len(entry.Chains[c].Models) > 1
        THEN MarkersAt("MODEL") # {} /\ MarkersAt("ENDMDL") # {}
        ELSE MarkersAt("MODEL") = {} /\ MarkersAt("ENDMDL") = {}

C23_Witness ==
    /\ Written
    /\ \E c \in 1..Len(entry.Chains) : Len(entry.Chains[c].Models) > 1
    /\ \E c \in 1..Len(entry.Chains) : Len(entry.Chains[c].Models) = 1
    /\ Cardinality(MarkersAt("MODEL")) = 3

(***************************************************************************)
(* C25.  Decoding the text the writer produced for an Entry gives an Entry *)
(* with the same chain identifiers, residue numbers (negative ones too),   *)
(* residue names and atom names in the same order.                         *)
(***************************************************************************)
C25_RoundTripKeepsNaming ==
    op = "reread" => (err = "nil" /\ Naming(entry) = Naming(inEntry))

(***************************************************************************)
(* C30.  When the writer writes the markers for an Entry with several      *)
(* chains, each model number opens exactly one MODEL ... ENDMDL block, and *)
(* that block has the coordinate lines of that model for every chain.      *)
(***************************************************************************)
C30_OneBlockPerModelNumber ==
    (Written /\ MarkersAt("MODEL") # {} /\ Len(entry.Chains) > 1) =>
        \A n \in ModelNumsOf(entry) :
            LET opened == {i \in MarkersAt("MODEL") : output[i].num = n}
            IN /\ Cardinality(opened) = 1
               /\ \A i \in opened :
                      Cardinality(BlockOf(i)) = Len(AtomsOfModel(entry, n))

====
